---- MODULE Spec2Model ----
(***************************************************************************)
(* State-machine model of the JSON-file backed REST services of the        *)
(* repository: the hotel booking service (src/bookings/main.py), the movie *)
(* review service (src/movie-review/movie_review_api.py) and the task      *)
(* service (src/main.py).                                                  *)
(*                                                                         *)
(* Every collection is one JSON file holding a list of flat objects; it is *)
(* modelled as a sequence of records in file order.  Every handler is one  *)
(* action: load the whole file, mutate the list, save the whole file.      *)
(* The handlers are plain functions, which the framework runs on a pool of *)
(* threads; create_booking, delete_room and delete_movie are modelled a    *)
(* second time as the steps between their file operations, one request in  *)
(* flight per slot, so that requests interleave.                           *)
(*                                                                         *)
(* Fields no handler reads or computes (room_type, amenities,              *)
(* is_available, description, guest_email, special_requests; description,  *)
(* genre, release_year, director, duration_minutes; reviewer_name,         *)
(* comment) are carried by one representative payload field per record:    *)
(* guest_name for a booking, title for a movie.  A day is an ordinal       *)
(* counted from the first day of the model's calendar; a rating and a      *)
(* price are kept in hundredths and whole units respectively.              *)
(***************************************************************************)
EXTENDS Integers, Sequences, FiniteSets, TLC

VARIABLES
    rooms,      \* content of rooms.json
    bookings,   \* content of bookings.json
    today,      \* date.today(), as a day ordinal
    movies,     \* content of movies.json
    reviews,    \* content of reviews.json
    calls,      \* file writes and update_movie_stats calls of the last handler
    response,   \* what the last handler returned or raised
    inflight,   \* the requests running step by step: position and local variables
    tasks       \* content of data.json

vars ==
    <<rooms, bookings, today, movies, reviews, calls, response, inflight, tasks>>

-----------------------------------------------------------------------------
(* Bounds of the model *)

MaxRoomId == 2
MaxBookingId == 2
MaxMovieId == 2
MaxReviewId == 3
MaxRequests == 2
MaxTaskId == 2

(* Inputs the requests are drawn from *)

RoomNumbers == {"101", "102"}
Prices == {100}
Capacities == {2}
GuestCounts == {1}
GuestNames == {"ann"}
Dates == {0, 1, 2}
Titles == {"Alien"}
Ratings == {700, 900}

None == -1

PENDING == "pending"
CONFIRMED == "confirmed"
CHECKED_IN == "checked_in"
CHECKED_OUT == "checked_out"
CANCELLED == "cancelled"
BookingStatusEnum == {PENDING, CONFIRMED, CHECKED_IN, CHECKED_OUT, CANCELLED}

-----------------------------------------------------------------------------
(* Python helpers used by every handler *)

\* the number of stored records taken for the largest id
max_id_as_length(coll) == Len(coll)

\* max([x["id"] for x in coll], default=0)
max_id(coll) ==
    IF Len(coll) = 0 THEN 0
    ELSE LET ids == {coll[i].id : i \in 1..Len(coll)}
         IN CHOOSE m \in ids : \A x \in ids : x <= m

\* for x in coll: if x["id"] == id: ...   (index of the first match, 0 if none)
find_by_id(coll, id) ==
    LET hits == {i \in 1..Len(coll) : coll[i].id = id}
    IN IF hits = {} THEN 0 ELSE CHOOSE i \in hits : \A j \in hits : i <= j

\* coll.remove(coll[i])
remove_at(coll, i) == SubSeq(coll, 1, i - 1) \o SubSeq(coll, i + 1, Len(coll))

\* a truth value that takes every id for None
truthy_never(x) == FALSE

\* truth value of an Optional[int] in a condition
truthy(x) == x # None /\ x # 0

-----------------------------------------------------------------------------
(* Dates: a date object is a day ordinal, the stored form is the ISO        *)
(* string written by json.dump(default=str), kept as <<year, month, day>>.  *)
(* Ordinal 0 is 2025-01-30, so the model's days cross a month boundary.     *)

\* str(date): the ISO form the file holds
isoformat(d) ==
    LET doy == 30 + d
    IN IF doy <= 31 THEN <<2025, 1, doy>> ELSE <<2025, 2, doy - 31>>

\* datetime.fromisoformat(s).date()
fromisoformat(s) ==
    (IF s[2] = 1 THEN s[3] ELSE 31 + s[3]) - 30

-----------------------------------------------------------------------------
(* Booking service: helpers *)

\* what a handler returns (2xx) or raises (4xx)
Response(op, code, detail, id, count) ==
    [op |-> op, status_code |-> code, detail |-> detail, id |-> id, count |-> count]

\* get_room_by_id that answers a missing id with a default room
get_room_by_id_defaulting(rms, room_id) ==
    LET i == find_by_id(rms, room_id)
    IN IF i = 0
       THEN <<[id |-> room_id, room_number |-> "", price_per_night |-> 0,
               capacity |-> 10]>>
       ELSE <<rms[i]>>

\* get_room_by_id: <<room>> when found, <<>> for None
get_room_by_id(rms, room_id) ==
    LET i == find_by_id(rms, room_id)
    IN IF i = 0 THEN <<>> ELSE <<rms[i]>>

\* overlaps with closed intervals: a stay ending on a check-in day collides
overlaps_closed(check_in, check_out, booking_check_in, booking_check_out) ==
    ~(check_out < booking_check_in \/ check_in > booking_check_out)

\* the overlap test of check_room_availability, on date objects
overlaps(check_in, check_out, booking_check_in, booking_check_out) ==
    ~(check_out <= booking_check_in \/ check_in >= booking_check_out)

\* the loop of check_room_availability from position i on
RECURSIVE availability_scan(_, _, _, _, _, _)
availability_scan(bks, i, room_id, check_in, check_out, exclude_booking_id) ==
    IF i > Len(bks) THEN TRUE
    ELSE IF truthy(exclude_booking_id) /\ bks[i].id = exclude_booking_id
         THEN availability_scan(bks, i + 1, room_id, check_in, check_out,
                                exclude_booking_id)
    ELSE IF bks[i].status = CANCELLED
         THEN availability_scan(bks, i + 1, room_id, check_in, check_out,
                                exclude_booking_id)
    ELSE IF bks[i].room_id # room_id
         THEN availability_scan(bks, i + 1, room_id, check_in, check_out,
                                exclude_booking_id)
    ELSE IF overlaps(check_in, check_out,
                     fromisoformat(bks[i].check_in_date),
                     fromisoformat(bks[i].check_out_date))
         THEN FALSE
    ELSE availability_scan(bks, i + 1, room_id, check_in, check_out,
                           exclude_booking_id)

\* check_room_availability that counts cancelled bookings as well
check_room_availability_any_status(bks, room_id, check_in, check_out, exclude_booking_id) ==
    availability_scan([i \in 1..Len(bks) |-> [bks[i] EXCEPT !.status = PENDING]],
                      1, room_id, check_in, check_out, exclude_booking_id)

check_room_availability(bks, room_id, check_in, check_out, exclude_booking_id) ==
    availability_scan(bks, 1, room_id, check_in, check_out, exclude_booking_id)

\* calculate_total_price counting the day of departure as a night
calculate_total_price_inclusive(rms, room_id, check_in, check_out) ==
    LET room == get_room_by_id(rms, room_id)
    IN IF room = <<>> THEN 0
       ELSE room[1].price_per_night * (check_out - check_in + 1)

calculate_total_price(rms, room_id, check_in, check_out) ==
    LET room == get_room_by_id(rms, room_id)
    IN IF room = <<>> THEN 0
       ELSE room[1].price_per_night * (check_out - check_in)

\* the pydantic validators of BookingCreate
valid_booking_create(room_id, check_in, check_out, num_guests) ==
    /\ room_id > 0
    /\ num_guests >= 1 /\ num_guests <= 10
    /\ check_out > check_in
    /\ check_in >= today

\* what create_booking answers on the stored rooms rms and bookings bks: the
\* detail of its HTTPException, "" when it goes on to store the booking
create_booking_detail(rms, bks, room_id, check_in, check_out, num_guests) ==
    LET room == get_room_by_id(rms, room_id)
    IN IF ~valid_booking_create(room_id, check_in, check_out, num_guests)
       THEN "validation"
       ELSE IF room = <<>> THEN "room_not_found"
       ELSE IF ~check_room_availability(bks, room_id, check_in, check_out, None)
       THEN "room_not_available"
       ELSE IF num_guests > room[1].capacity THEN "capacity"
       ELSE ""

\* cancels without the room test
cancels_any_room(booking, room_id) == booking.status # CANCELLED

\* the condition under which the loop of delete_room cancels a booking
cancels(booking, room_id) ==
    booking.room_id = room_id /\ booking.status # CANCELLED

\* the cancel loop of delete_room from position i on, cancelled_bookings so far
\* being n: <<bookings, cancelled_bookings>>
RECURSIVE cancel_loop(_, _, _, _)
cancel_loop(bks, i, room_id, n) ==
    IF i > Len(bks) THEN <<bks, n>>
    ELSE IF cancels(bks[i], room_id)
         THEN cancel_loop([bks EXCEPT ![i].status = CANCELLED], i + 1, room_id, n + 1)
         ELSE cancel_loop(bks, i + 1, room_id, n)

\* set_status that also clears the derived price
set_status_and_price(booking, new_status) ==
    [booking EXCEPT !.status = new_status, !.total_price = 0]

\* booking["status"] = new_status.value
set_status(booking, new_status) == [booking EXCEPT !.status = new_status]

\* what no booking handler touches
movie_vars == <<movies, reviews, calls, inflight, tasks>>

-----------------------------------------------------------------------------
(* Booking service: handlers *)

create_room(room_number, price_per_night, capacity) ==
    /\ UNCHANGED <<bookings, today, movie_vars>>
    /\ IF \E i \in 1..Len(rooms) : rooms[i].room_number = room_number
       THEN /\ response' = Response("create_room", 400, "room_number_exists", 0, 0)
            /\ UNCHANGED rooms
       ELSE /\ max_id(rooms) + 1 <= MaxRoomId
            /\ rooms' = Append(rooms,
                   [id |-> max_id(rooms) + 1, room_number |-> room_number,
                    price_per_night |-> price_per_night, capacity |-> capacity])
            /\ response' = Response("create_room", 201, "", max_id(rooms) + 1, 0)

\* update_room without the test for another room of the same number
update_room_unchecked(room_id, room_number, price_per_night, capacity) ==
    /\ UNCHANGED <<bookings, today, movie_vars>>
    /\ LET i == find_by_id(rooms, room_id)
       IN IF i = 0
          THEN /\ response' = Response("update_room", 404, "room_not_found", 0, 0)
               /\ UNCHANGED rooms
          ELSE /\ rooms' = [rooms EXCEPT ![i] =
                      [id |-> room_id, room_number |-> room_number,
                       price_per_night |-> price_per_night,
                       capacity |-> capacity]]
               /\ response' = Response("update_room", 200, "", room_id, 0)

update_room(room_id, room_number, price_per_night, capacity) ==
    /\ UNCHANGED <<bookings, today, movie_vars>>
    /\ IF \E i \in 1..Len(rooms) :
            rooms[i].room_number = room_number /\ rooms[i].id # room_id
       THEN /\ response' = Response("update_room", 400, "room_number_exists", 0, 0)
            /\ UNCHANGED rooms
       ELSE LET i == find_by_id(rooms, room_id)
            IN IF i = 0
               THEN /\ response' = Response("update_room", 404, "room_not_found", 0, 0)
                    /\ UNCHANGED rooms
               ELSE /\ rooms' = [rooms EXCEPT ![i] =
                           [id |-> room_id, room_number |-> room_number,
                            price_per_night |-> price_per_night,
                            capacity |-> capacity]]
                    /\ response' = Response("update_room", 200, "", room_id, 0)

delete_room(room_id) ==
    /\ UNCHANGED <<today, movie_vars>>
    /\ LET i == find_by_id(rooms, room_id)
       IN IF i = 0
          THEN /\ response' = Response("delete_room", 404, "room_not_found", 0, 0)
               /\ UNCHANGED <<rooms, bookings>>
          ELSE /\ rooms' = remove_at(rooms, i)
               /\ bookings' = cancel_loop(bookings, 1, room_id, 0)[1]
               /\ response' = Response("delete_room", 200, "", room_id,
                                       cancel_loop(bookings, 1, room_id, 0)[2])

create_booking(room_id, guest_name, check_in, check_out, num_guests) ==
    /\ UNCHANGED <<rooms, today, movie_vars>>
    /\ LET room == get_room_by_id(rooms, room_id)
       IN IF ~valid_booking_create(room_id, check_in, check_out, num_guests)
          THEN /\ response' = Response("create_booking", 422, "validation", 0, 0)
               /\ UNCHANGED bookings
          ELSE IF room = <<>>
          THEN /\ response' = Response("create_booking", 404, "room_not_found", 0, 0)
               /\ UNCHANGED bookings
          ELSE IF ~check_room_availability(bookings, room_id, check_in, check_out, None)
          THEN /\ response' = Response("create_booking", 400, "room_not_available", 0, 0)
               /\ UNCHANGED bookings
          ELSE IF num_guests > room[1].capacity
          THEN /\ response' = Response("create_booking", 400, "capacity", 0, 0)
               /\ UNCHANGED bookings
          ELSE /\ max_id(bookings) + 1 <= MaxBookingId
               /\ bookings' = Append(bookings,
                      [id |-> max_id(bookings) + 1,
                       room_id |-> room_id,
                       guest_name |-> guest_name,
                       check_in_date |-> isoformat(check_in),
                       check_out_date |-> isoformat(check_out),
                       num_guests |-> num_guests,
                       total_price |-> calculate_total_price(rooms, room_id,
                                                             check_in, check_out),
                       status |-> PENDING,
                       created_at |-> today])
               /\ response' = Response("create_booking", 201, "",
                                       max_id(bookings) + 1, 0)

\* update_booking that takes the status back to pending
update_booking_resetting(booking_id, room_id, guest_name, check_in, check_out, num_guests) ==
    /\ UNCHANGED <<rooms, today, movie_vars>>
    /\ LET room == get_room_by_id(rooms, room_id)
           i == find_by_id(bookings, booking_id)
       IN IF ~valid_booking_create(room_id, check_in, check_out, num_guests)
          THEN /\ response' = Response("update_booking", 422, "validation", 0, 0)
               /\ UNCHANGED bookings
          ELSE IF room = <<>>
          THEN /\ response' = Response("update_booking", 404, "room_not_found", 0, 0)
               /\ UNCHANGED bookings
          ELSE IF i = 0
          THEN /\ response' = Response("update_booking", 404, "booking_not_found", 0, 0)
               /\ UNCHANGED bookings
          ELSE IF ~check_room_availability(bookings, room_id, check_in, check_out,
                                           booking_id)
          THEN /\ response' = Response("update_booking", 400, "room_not_available", 0, 0)
               /\ UNCHANGED bookings
          ELSE IF num_guests > room[1].capacity
          THEN /\ response' = Response("update_booking", 400, "capacity", 0, 0)
               /\ UNCHANGED bookings
          ELSE /\ bookings' = [bookings EXCEPT ![i] =
                      [id |-> booking_id,
                       room_id |-> room_id,
                       guest_name |-> guest_name,
                       check_in_date |-> isoformat(check_in),
                       check_out_date |-> isoformat(check_out),
                       num_guests |-> num_guests,
                       total_price |-> calculate_total_price(rooms, room_id,
                                                             check_in, check_out),
                       status |-> PENDING,
                       created_at |-> bookings[i].created_at]]
               /\ response' = Response("update_booking", 200, "", booking_id, 0)

update_booking(booking_id, room_id, guest_name, check_in, check_out, num_guests) ==
    /\ UNCHANGED <<rooms, today, movie_vars>>
    /\ LET room == get_room_by_id(rooms, room_id)
           i == find_by_id(bookings, booking_id)
       IN IF ~valid_booking_create(room_id, check_in, check_out, num_guests)
          THEN /\ response' = Response("update_booking", 422, "validation", 0, 0)
               /\ UNCHANGED bookings
          ELSE IF room = <<>>
          THEN /\ response' = Response("update_booking", 404, "room_not_found", 0, 0)
               /\ UNCHANGED bookings
          ELSE IF i = 0
          THEN /\ response' = Response("update_booking", 404, "booking_not_found", 0, 0)
               /\ UNCHANGED bookings
          ELSE IF ~check_room_availability(bookings, room_id, check_in, check_out,
                                           booking_id)
          THEN /\ response' = Response("update_booking", 400, "room_not_available", 0, 0)
               /\ UNCHANGED bookings
          ELSE IF num_guests > room[1].capacity
          THEN /\ response' = Response("update_booking", 400, "capacity", 0, 0)
               /\ UNCHANGED bookings
          ELSE /\ bookings' = [bookings EXCEPT ![i] =
                      [id |-> booking_id,
                       room_id |-> room_id,
                       guest_name |-> guest_name,
                       check_in_date |-> isoformat(check_in),
                       check_out_date |-> isoformat(check_out),
                       num_guests |-> num_guests,
                       total_price |-> calculate_total_price(rooms, room_id,
                                                             check_in, check_out),
                       status |-> bookings[i].status,
                       created_at |-> bookings[i].created_at]]
               /\ response' = Response("update_booking", 200, "", booking_id, 0)

delete_booking(booking_id) ==
    /\ UNCHANGED <<rooms, today, movie_vars>>
    /\ LET i == find_by_id(bookings, booking_id)
       IN IF i = 0
          THEN /\ response' = Response("delete_booking", 404, "booking_not_found", 0, 0)
               /\ UNCHANGED bookings
          ELSE /\ bookings' = remove_at(bookings, i)
               /\ response' = Response("delete_booking", 200, "", booking_id, 0)

update_booking_status(booking_id, new_status) ==
    /\ UNCHANGED <<rooms, today, movie_vars>>
    /\ LET i == find_by_id(bookings, booking_id)
       IN IF i = 0
          THEN /\ response' = Response("update_booking_status", 404, "booking_not_found", 0, 0)
               /\ UNCHANGED bookings
          ELSE /\ bookings' = [bookings EXCEPT ![i] = set_status(bookings[i], new_status)]
               /\ response' = Response("update_booking_status", 200, "", booking_id, 0)

\* a check_room_availability that cancels the booking it was told to exclude
check_room_availability_call_cancelling(room_id, check_in, check_out, exclude_booking_id) ==
    /\ UNCHANGED <<rooms, today, movie_vars>>
    /\ bookings' = [i \in 1..Len(bookings) |->
                       IF bookings[i].id = exclude_booking_id
                       THEN set_status(bookings[i], CANCELLED)
                       ELSE bookings[i]]
    /\ response' = Response("check_room_availability", 0,
                       IF check_room_availability(bookings, room_id, check_in,
                                                  check_out, exclude_booking_id)
                       THEN "True" ELSE "False", 0, 0)

\* one call of check_room_availability by itself: it loads bookings.json,
\* returns its answer and writes nothing
check_room_availability_call(room_id, check_in, check_out, exclude_booking_id) ==
    /\ UNCHANGED <<rooms, bookings, today, movie_vars>>
    /\ response' = Response("check_room_availability", 0,
                       IF check_room_availability(bookings, room_id, check_in,
                                                  check_out, exclude_booking_id)
                       THEN "True" ELSE "False", 0, 0)

\* the calendar day passes (date.today() of the validators)
AdvanceDay ==
    /\ today + 2 \in Dates
    /\ today' = today + 1
    /\ UNCHANGED <<rooms, bookings, movie_vars, response>>

------------------------------------------------------------------------
(* Movie review service: helpers *)

\* what no movie handler touches
booking_vars == <<rooms, bookings, today, inflight, tasks>>

\* one entry of the log of a handler's file writes and statistics calls
Call(fn, file, movie_id) == [fn |-> fn, file |-> file, movie_id |-> movie_id]
Save(file) == Call("save_data_to_json", file, 0)

\* sum(r["rating"] for r in movie_reviews)
RECURSIVE sum_ratings(_)
sum_ratings(revs) ==
    IF Len(revs) = 0 THEN 0 ELSE revs[1].rating + sum_ratings(Tail(revs))

\* round2 that truncates
round2_floor(total, n) == total \div n

\* round(total / n, 2) on ratings kept in hundredths: the nearest hundredth,
\* an exactly representable half going to the even neighbour
round2(total, n) ==
    LET q == total \div n
        r == total % n
    IN IF 2 * r < n THEN q
       ELSE IF 2 * r > n THEN q + 1
       ELSE IF q % 2 = 0 THEN q ELSE q + 1

\* calculate_movie_stats: <<avg_rating, review_count>>
calculate_movie_stats(revs, movie_id) ==
    LET movie_reviews == SelectSeq(revs, LAMBDA r : r.movie_id = movie_id)
    IN IF Len(movie_reviews) = 0 THEN <<None, 0>>
       ELSE <<round2(sum_ratings(movie_reviews), Len(movie_reviews)),
              Len(movie_reviews)>>

\* update_movie_stats that leaves the rating as it was
update_movie_stats_count_only(mvs, revs, movie_id) ==
    LET i == find_by_id(mvs, movie_id)
    IN IF i = 0 THEN mvs
       ELSE [mvs EXCEPT ![i].review_count = calculate_movie_stats(revs, movie_id)[2]]

\* update_movie_stats without the id test of its loop
update_movie_stats_every_movie(mvs, revs, movie_id) ==
    [i \in 1..Len(mvs) |->
        [mvs[i] EXCEPT !.rating = calculate_movie_stats(revs, movie_id)[1],
                       !.review_count = calculate_movie_stats(revs, movie_id)[2]]]

\* update_movie_stats that counts one more review instead of recomputing
update_movie_stats_incremental(mvs, revs, movie_id) ==
    LET i == find_by_id(mvs, movie_id)
    IN IF i = 0 THEN mvs
       ELSE [mvs EXCEPT ![i].rating = calculate_movie_stats(revs, movie_id)[1],
                        ![i].review_count = mvs[i].review_count + 1]

\* update_movie_stats: the movie collection it leaves in movies.json
update_movie_stats(mvs, revs, movie_id) ==
    LET i == find_by_id(mvs, movie_id)
        stats == calculate_movie_stats(revs, movie_id)
    IN IF i = 0 THEN mvs
       ELSE [mvs EXCEPT ![i] =
                [mvs[i] EXCEPT !.rating = stats[1], !.review_count = stats[2]]]

\* update_movie_stats: the call and the file write it makes
update_movie_stats_calls(mvs, movie_id) ==
    <<Call("update_movie_stats", "", movie_id)>>
    \o (IF find_by_id(mvs, movie_id) = 0 THEN <<>> ELSE <<Save("movies")>>)

\* a lookup that answers with the first stored movie whatever its id
get_movie_by_id_first(mvs, movie_id) ==
    IF Len(mvs) = 0 THEN <<>> ELSE <<mvs[1]>>

\* get_movie_by_id: <<movie>> when found, <<>> for None
get_movie_by_id(mvs, movie_id) ==
    LET i == find_by_id(mvs, movie_id)
    IN IF i = 0 THEN <<>> ELSE <<mvs[i]>>

\* update_review recomputing the old movie only
update_review_stats_targets_old_only(old_movie_id, new_movie_id) ==
    <<old_movie_id>>

\* the movies update_review recomputes, in call order
update_review_stats_targets(old_movie_id, new_movie_id) ==
    IF old_movie_id # new_movie_id
    THEN <<old_movie_id, new_movie_id>>
    ELSE <<old_movie_id>>

\* a handler's update_movie_stats calls, one after the other
RECURSIVE recompute(_, _, _)
recompute(mvs, revs, targets) ==
    IF Len(targets) = 0 THEN mvs
    ELSE recompute(update_movie_stats(mvs, revs, targets[1]), revs, Tail(targets))

RECURSIVE recompute_calls(_, _)
recompute_calls(mvs, targets) ==
    IF Len(targets) = 0 THEN <<>>
    ELSE update_movie_stats_calls(mvs, targets[1])
         \o recompute_calls(mvs, Tail(targets))

\* remaining_reviews filtering on the review's own id
remaining_reviews_by_review_id(revs, movie_id) ==
    SelectSeq(revs, LAMBDA r : r.id # movie_id)

\* remaining_reviews of delete_movie
remaining_reviews(revs, movie_id) ==
    SelectSeq(revs, LAMBDA r : r.movie_id # movie_id)

\* the pydantic validators of ReviewCreate (rating in hundredths)
valid_review_create(movie_id, rating) ==
    movie_id > 0 /\ rating >= 100 /\ rating <= 1000

-----------------------------------------------------------------------------
(* Movie review service: handlers *)

create_movie(title) ==
    /\ UNCHANGED <<booking_vars, reviews>>
    /\ max_id(movies) + 1 <= MaxMovieId
    /\ movies' = Append(movies,
           [id |-> max_id(movies) + 1, title |-> title,
            rating |-> None, review_count |-> 0])
    /\ calls' = <<Save("movies")>>
    /\ response' = Response("create_movie", 201, "", max_id(movies) + 1, 0)

update_movie(movie_id, title) ==
    /\ UNCHANGED <<booking_vars, reviews>>
    /\ LET i == find_by_id(movies, movie_id)
       IN IF i = 0
          THEN /\ response' = Response("update_movie", 404, "movie_not_found", 0, 0)
               /\ calls' = <<>>
               /\ UNCHANGED movies
          ELSE /\ movies' = [movies EXCEPT ![i] =
                      [id |-> movie_id, title |-> title,
                       rating |-> calculate_movie_stats(reviews, movie_id)[1],
                       review_count |-> calculate_movie_stats(reviews, movie_id)[2]]]
               /\ calls' = <<Save("movies")>>
               /\ response' = Response("update_movie", 200, "", movie_id, 0)

delete_movie(movie_id) ==
    /\ UNCHANGED booking_vars
    /\ LET i == find_by_id(movies, movie_id)
       IN IF i = 0
          THEN /\ response' = Response("delete_movie", 404, "movie_not_found", 0, 0)
               /\ calls' = <<>>
               /\ UNCHANGED <<movies, reviews>>
          ELSE /\ movies' = remove_at(movies, i)
               /\ reviews' = remaining_reviews(reviews, movie_id)
               /\ calls' = <<Save("movies"), Save("reviews")>>
               /\ response' = Response("delete_movie", 200, "", movie_id,
                      Len(reviews) - Len(remaining_reviews(reviews, movie_id)))

create_review(movie_id, rating) ==
    /\ UNCHANGED booking_vars
    /\ IF ~valid_review_create(movie_id, rating)
       THEN /\ response' = Response("create_review", 422, "validation", 0, 0)
            /\ calls' = <<>>
            /\ UNCHANGED <<movies, reviews>>
       ELSE IF get_movie_by_id(movies, movie_id) = <<>>
       THEN /\ response' = Response("create_review", 404, "movie_not_found", 0, 0)
            /\ calls' = <<>>
            /\ UNCHANGED <<movies, reviews>>
       ELSE /\ max_id(reviews) + 1 <= MaxReviewId
            /\ reviews' = Append(reviews,
                   [id |-> max_id(reviews) + 1, movie_id |-> movie_id,
                    rating |-> rating])
            /\ movies' = recompute(movies, reviews', <<movie_id>>)
            /\ calls' = <<Save("reviews")>> \o recompute_calls(movies, <<movie_id>>)
            /\ response' = Response("create_review", 201, "", max_id(reviews) + 1, 0)

update_review(review_id, movie_id, rating) ==
    /\ UNCHANGED booking_vars
    /\ LET i == find_by_id(reviews, review_id)
       IN IF ~valid_review_create(movie_id, rating)
          THEN /\ response' = Response("update_review", 422, "validation", 0, 0)
               /\ calls' = <<>>
               /\ UNCHANGED <<movies, reviews>>
          ELSE IF get_movie_by_id(movies, movie_id) = <<>>
          THEN /\ response' = Response("update_review", 404, "movie_not_found", 0, 0)
               /\ calls' = <<>>
               /\ UNCHANGED <<movies, reviews>>
          ELSE IF i = 0
          THEN /\ response' = Response("update_review", 404, "review_not_found", 0, 0)
               /\ calls' = <<>>
               /\ UNCHANGED <<movies, reviews>>
          ELSE LET targets == update_review_stats_targets(reviews[i].movie_id, movie_id)
               IN /\ reviews' = [reviews EXCEPT ![i] =
                         [id |-> review_id, movie_id |-> movie_id, rating |-> rating]]
                  /\ movies' = recompute(movies, reviews', targets)
                  /\ calls' = <<Save("reviews")>> \o recompute_calls(movies, targets)
                  /\ response' = Response("update_review", 200, "", review_id, 0)

delete_review(review_id) ==
    /\ UNCHANGED booking_vars
    /\ LET i == find_by_id(reviews, review_id)
       IN IF i = 0
          THEN /\ response' = Response("delete_review", 404, "review_not_found", 0, 0)
               /\ calls' = <<>>
               /\ UNCHANGED <<movies, reviews>>
          ELSE /\ reviews' = remove_at(reviews, i)
               /\ movies' = recompute(movies, reviews', <<reviews[i].movie_id>>)
               /\ calls' = <<Save("reviews")>>
                           \o recompute_calls(movies, <<reviews[i].movie_id>>)
               /\ response' = Response("delete_review", 200, "", review_id, 0)

-----------------------------------------------------------------------------
(* Task service.  A task is id, title, description, completed; description  *)
(* is carried by title.  The id of a task is part of the request body.      *)

\* what no task handler touches
other_vars == <<rooms, bookings, today, movies, reviews, calls, inflight>>

\* read_task: the response of GET /tasks/{task_id} on the collection tks
read_task(tks, task_id) ==
    LET i == find_by_id(tks, task_id)
    IN IF i = 0 THEN [status_code |-> 404, task |-> <<>>]
       ELSE [status_code |-> 200, task |-> <<tks[i]>>]

\* the id create_task stores: generated with auto_id, else the one submitted
task_id_for(tks, id, auto_id) ==
    IF auto_id THEN max_id(tks) + 1 ELSE id

\* a removal that drops the first stored task whatever its id
without_task_first(tks, task_id) ==
    IF Len(tks) = 0 THEN tks ELSE remove_at(tks, 1)

\* the collection delete_task saves: tks without its first task of that id
without_task(tks, task_id) ==
    LET i == find_by_id(tks, task_id)
    IN IF i = 0 THEN tks ELSE remove_at(tks, i)

create_task(id, title, completed, auto_id) ==
    /\ UNCHANGED other_vars
    /\ IF ~auto_id /\ \E i \in 1..Len(tasks) : tasks[i].id = id
       THEN /\ response' = Response("create_task", 400, "task_id_exists", 0, 0)
            /\ UNCHANGED tasks
       ELSE /\ task_id_for(tasks, id, auto_id) <= MaxTaskId
            /\ tasks' = Append(tasks,
                   [id |-> task_id_for(tasks, id, auto_id), title |-> title,
                    completed |-> completed])
            /\ response' = Response("create_task", 201, "",
                                    task_id_for(tasks, id, auto_id), 0)

\* update_task without the test for another task of the new id
update_task_unchecked(task_id, id, title, completed) ==
    /\ UNCHANGED other_vars
    /\ LET i == find_by_id(tasks, task_id)
       IN IF i = 0
          THEN /\ response' = Response("update_task", 404, "task_not_found", 0, 0)
               /\ UNCHANGED tasks
          ELSE /\ tasks' = [tasks EXCEPT ![i] =
                      [id |-> id, title |-> title, completed |-> completed]]
               /\ response' = Response("update_task", 200, "", id, 0)

update_task(task_id, id, title, completed) ==
    /\ UNCHANGED other_vars
    /\ IF id # task_id /\ \E i \in 1..Len(tasks) : tasks[i].id = id
       THEN /\ response' = Response("update_task", 400, "task_id_exists", 0, 0)
            /\ UNCHANGED tasks
       ELSE LET i == find_by_id(tasks, task_id)
            IN IF i = 0
               THEN /\ response' = Response("update_task", 404, "task_not_found", 0, 0)
                    /\ UNCHANGED tasks
               ELSE /\ tasks' = [tasks EXCEPT ![i] =
                           [id |-> id, title |-> title, completed |-> completed]]
                    /\ response' = Response("update_task", 200, "", id, 0)

delete_task(task_id) ==
    /\ UNCHANGED other_vars
    /\ IF find_by_id(tasks, task_id) = 0
       THEN /\ response' = Response("delete_task", 404, "task_not_found", 0, 0)
            /\ UNCHANGED tasks
       ELSE /\ tasks' = without_task(tasks, task_id)
            /\ response' = Response("delete_task", 200, "", task_id, 0)

-----------------------------------------------------------------------------
(* Handlers step by step.  A request occupies one slot of inflight from its *)
(* first step to its response; its position is the file operation it does   *)
(* next and loaded is the list it read.  A file operation is one step: a    *)
(* save replaces the whole file with the list it is given.                  *)

Requests == 1..MaxRequests

Idle ==
    [pc |-> "idle", op |-> "", target |-> 0, guest_name |-> "",
     check_in |-> 0, check_out |-> 0, num_guests |-> 0, total_price |-> 0,
     loaded |-> <<>>, raced |-> {}, resp |-> Response("start", 0, "", 0, 0)]

\* a save that keeps what the file holds and adds the last entry of data
save_data_to_json_merging(data, stored) ==
    IF Len(data) > 0 /\ Len(stored) >= Len(data)
    THEN Append(stored, [data[Len(data)] EXCEPT !.id = max_id(stored) + 1])
    ELSE data

\* the content of a file after save_data_to_json(data, file), stored being
\* its content before
save_data_to_json(data, stored) == data

\* request q raises or returns resp without having written
finish(q, resp) ==
    [inflight EXCEPT ![q].pc = "done", ![q].resp = resp]

\* request q returns resp after its save; every request holding a list it
\* loaded from the same file (its position in holders) has been raced by q
finish_save(q, resp, holders) ==
    [u \in Requests |->
        IF u = q THEN [inflight[q] EXCEPT !.pc = "done", !.resp = resp]
        ELSE IF inflight[u].pc \in holders
             THEN [inflight[u] EXCEPT !.raced = @ \cup {q}]
             ELSE inflight[u]]

\* create_booking up to the capacity test: the validators and the three checks
create_booking_checks(q, room_id, guest_name, check_in, check_out, num_guests) ==
    /\ inflight[q].pc = "idle"
    /\ UNCHANGED <<tasks, rooms, bookings, today, movies, reviews, calls>>
    /\ LET room == get_room_by_id(rooms, room_id)
           raise(code, detail) ==
               /\ response' = Response("create_booking", code, detail, 0, 0)
               /\ inflight' = finish(q, response')
       IN IF ~valid_booking_create(room_id, check_in, check_out, num_guests)
          THEN raise(422, "validation")
          ELSE IF room = <<>>
          THEN raise(404, "room_not_found")
          ELSE IF ~check_room_availability(bookings, room_id, check_in, check_out, None)
          THEN raise(400, "room_not_available")
          ELSE IF num_guests > room[1].capacity
          THEN raise(400, "capacity")
          ELSE /\ inflight' = [inflight EXCEPT ![q] =
                      [@ EXCEPT !.pc = "load", !.op = "create_booking",
                                !.target = room_id, !.guest_name = guest_name,
                                !.check_in = check_in, !.check_out = check_out,
                                !.num_guests = num_guests]]
               /\ UNCHANGED response

\* bookings = load_data_from_json(BOOKINGS_FILE)
create_booking_load(q) ==
    /\ inflight[q].pc = "load"
    /\ inflight' = [inflight EXCEPT ![q] =
           [@ EXCEPT !.pc = "price", !.loaded = bookings, !.raced = {}]]
    /\ UNCHANGED <<tasks, rooms, bookings, today, movies, reviews, calls, response>>

\* total_price = calculate_total_price(...), which reads rooms.json
create_booking_price(q) ==
    /\ inflight[q].pc = "price"
    /\ inflight' = [inflight EXCEPT ![q] =
           [@ EXCEPT !.pc = "save",
                     !.total_price = calculate_total_price(rooms,
                                         inflight[q].target, inflight[q].check_in,
                                         inflight[q].check_out)]]
    /\ UNCHANGED <<tasks, rooms, bookings, today, movies, reviews, calls, response>>

\* the booking is appended to the loaded list and the list is saved
create_booking_save(q) ==
    LET me == inflight[q]
        booking_id == max_id(me.loaded) + 1
        data == Append(me.loaded,
                    [id |-> booking_id,
                     room_id |-> me.target,
                     guest_name |-> me.guest_name,
                     check_in_date |-> isoformat(me.check_in),
                     check_out_date |-> isoformat(me.check_out),
                     num_guests |-> me.num_guests,
                     total_price |-> me.total_price,
                     status |-> PENDING,
                     created_at |-> today])
    IN /\ me.pc = "save"
       /\ booking_id <= MaxBookingId
       /\ bookings' = save_data_to_json(data, bookings)
       /\ response' = Response("create_booking", 201, "", booking_id, 0)
       /\ inflight' = finish_save(q, response', {"price", "save", "cancel"})
       /\ UNCHANGED <<tasks, rooms, today, movies, reviews, calls>>

\* delete_room up to its first save: both files loaded, the room removed and
\* rooms.json written
delete_room_rooms(q, room_id) ==
    /\ inflight[q].pc = "idle"
    /\ UNCHANGED <<tasks, bookings, today, movies, reviews, calls>>
    /\ LET i == find_by_id(rooms, room_id)
       IN IF i = 0
          THEN /\ response' = Response("delete_room", 404, "room_not_found", 0, 0)
               /\ inflight' = finish(q, response')
               /\ UNCHANGED rooms
          ELSE /\ rooms' = save_data_to_json(remove_at(rooms, i), rooms)
               /\ inflight' = [inflight EXCEPT ![q] =
                      [@ EXCEPT !.pc = "cancel", !.op = "delete_room",
                                !.target = room_id, !.loaded = bookings,
                                !.raced = {}]]
               /\ UNCHANGED response

\* the cancel loop over the loaded bookings and the save of bookings.json
delete_room_bookings(q) ==
    LET me == inflight[q]
        done == cancel_loop(me.loaded, 1, me.target, 0)
    IN /\ me.pc = "cancel"
       /\ bookings' = save_data_to_json(done[1], bookings)
       /\ response' = Response("delete_room", 200, "", me.target, done[2])
       /\ inflight' = finish_save(q, response', {"price", "save", "cancel"})
       /\ UNCHANGED <<tasks, rooms, today, movies, reviews, calls>>

\* delete_movie up to its first save: both files loaded, the movie removed
\* and movies.json written
delete_movie_movies(q, movie_id) ==
    /\ inflight[q].pc = "idle"
    /\ UNCHANGED <<tasks, rooms, bookings, today, reviews>>
    /\ LET i == find_by_id(movies, movie_id)
       IN IF i = 0
          THEN /\ response' = Response("delete_movie", 404, "movie_not_found", 0, 0)
               /\ inflight' = finish(q, response')
               /\ calls' = <<>>
               /\ UNCHANGED movies
          ELSE /\ movies' = save_data_to_json(remove_at(movies, i), movies)
               /\ calls' = <<Save("movies")>>
               /\ inflight' = [inflight EXCEPT ![q] =
                      [@ EXCEPT !.pc = "reviews", !.op = "delete_movie",
                                !.target = movie_id, !.loaded = reviews,
                                !.raced = {}]]
               /\ UNCHANGED response

\* the loaded reviews without those of the movie, saved to reviews.json
delete_movie_reviews(q) ==
    LET me == inflight[q]
        kept == remaining_reviews(me.loaded, me.target)
    IN /\ me.pc = "reviews"
       /\ reviews' = save_data_to_json(kept, reviews)
       /\ calls' = <<Save("reviews")>>
       /\ response' = Response("delete_movie", 200, "", me.target,
                                Len(me.loaded) - Len(kept))
       /\ inflight' = finish_save(q, response', {"reviews"})
       /\ UNCHANGED <<tasks, rooms, bookings, today, movies>>

-----------------------------------------------------------------------------
(* Specifications *)

Init ==
    /\ rooms = <<>>
    /\ bookings = <<>>
    /\ today = 0
    /\ movies = <<>>
    /\ reviews = <<>>
    /\ calls = <<>>
    /\ response = Response("start", 0, "", 0, 0)
    /\ inflight = [q \in Requests |-> Idle]
    /\ tasks = <<>>

\* the requests of the booking service, their fields drawn from the given sets
BookingRequests(dates, statuses) ==
    \/ \E n \in RoomNumbers, p \in Prices, c \in Capacities : create_room(n, p, c)
    \/ \E r \in 1..MaxRoomId, n \in RoomNumbers, p \in Prices, c \in Capacities :
          update_room(r, n, p, c)
    \/ \E r \in 1..MaxRoomId : delete_room(r)
    \/ \E r \in 1..MaxRoomId, g \in GuestNames, ci \in dates, co \in dates,
          n \in GuestCounts : create_booking(r, g, ci, co, n)
    \/ \E b \in 1..MaxBookingId, r \in 1..MaxRoomId, g \in GuestNames,
          ci \in dates, co \in dates, n \in GuestCounts :
          update_booking(b, r, g, ci, co, n)
    \/ \E b \in 1..MaxBookingId : delete_booking(b)
    \/ \E b \in 1..MaxBookingId, s \in statuses : update_booking_status(b, s)

\* the whole booking service over three days, the calendar advancing
NextBooking == BookingRequests(Dates, BookingStatusEnum) \/ AdvanceDay

SpecBooking == Init /\ [][NextBooking]_vars

\* the booking service with one stay per room and day, for the cascade and
\* frame properties, which do not depend on the dates
NextCascade == BookingRequests({0, 1}, {CONFIRMED, CANCELLED})

SpecCascade == Init /\ [][NextCascade]_vars

\* the requests that build booking collections, for the availability check
NextAvailability ==
    \/ \E n \in RoomNumbers, p \in Prices, c \in Capacities : create_room(n, p, c)
    \/ \E r \in 1..MaxRoomId, g \in GuestNames, ci \in Dates, co \in Dates,
          n \in GuestCounts : create_booking(r, g, ci, co, n)
    \/ \E b \in 1..MaxBookingId : delete_booking(b)
    \/ \E b \in 1..MaxBookingId, s \in {PENDING, CANCELLED} :
          update_booking_status(b, s)

SpecAvailability == Init /\ [][NextAvailability]_vars

\* the movie review service
NextMovie ==
    \/ \E t \in Titles : create_movie(t)
    \/ \E m \in 1..MaxMovieId, t \in Titles : update_movie(m, t)
    \/ \E m \in 1..MaxMovieId : delete_movie(m)
    \/ \E m \in 1..MaxMovieId, x \in Ratings : create_review(m, x)
    \/ \E r \in 1..MaxReviewId, m \in 1..MaxMovieId, x \in Ratings :
          update_review(r, m, x)
    \/ \E r \in 1..MaxReviewId : delete_review(r)

SpecMovie == Init /\ [][NextMovie]_vars

\* the handlers that build the two collections and call update_movie_stats
\* once, for the properties of that call
NextStats ==
    \/ \E t \in Titles : create_movie(t)
    \/ \E m \in 1..MaxMovieId : delete_movie(m)
    \/ \E m \in 1..MaxMovieId, x \in Ratings : create_review(m, x)
    \/ \E r \in 1..MaxReviewId : delete_review(r)

SpecStats == Init /\ [][NextStats]_vars

\* the handlers of both services that name a parent room or movie, with the
\* handlers that create and delete the parents; the services are separate
\* processes over separate files, so a run drives one of them
NextParents ==
    \/ /\ movies = <<>> /\ reviews = <<>>
       /\ \/ \E p \in Prices, c \in Capacities : create_room("101", p, c)
          \/ \E r \in 1..MaxRoomId : delete_room(r)
          \/ \E r \in 1..MaxRoomId, g \in GuestNames, n \in GuestCounts :
                create_booking(r, g, 0, 1, n)
          \/ \E b \in 1..MaxBookingId, r \in 1..MaxRoomId, g \in GuestNames,
                n \in GuestCounts : update_booking(b, r, g, 0, 1, n)
    \/ /\ rooms = <<>> /\ bookings = <<>>
       /\ \/ \E t \in Titles : create_movie(t)
          \/ \E m \in 1..MaxMovieId : delete_movie(m)
          \/ \E m \in 1..MaxMovieId : create_review(m, 700)
          \/ \E r \in 1..MaxReviewId, m \in 1..MaxMovieId : update_review(r, m, 700)

SpecParents == Init /\ [][NextParents]_vars

\* the room handlers, with rooms of two prices and two capacities
NextRooms ==
    \/ \E n \in RoomNumbers, p \in {100, 150}, c \in {1, 2} : create_room(n, p, c)
    \/ \E r \in 1..MaxRoomId, n \in RoomNumbers, p \in {100, 150}, c \in {1, 2} :
          update_room(r, n, p, c)
    \/ \E r \in 1..MaxRoomId : delete_room(r)

SpecRooms == Init /\ [][NextRooms]_vars

\* the room handlers beside create_booking for parties of one and two
NextRoomEdit ==
    \/ NextRooms
    \/ \E r \in 1..MaxRoomId, g \in GuestNames, n \in {1, 2} :
          create_booking(r, g, 0, 1, n)

SpecRoomEdit == Init /\ [][NextRoomEdit]_vars

\* create_booking requests of two guests for one stay, running step by step
\* beside each other
NextRace ==
    \/ \E p \in Prices, c \in Capacities : create_room("101", p, c)
    \/ \E q \in Requests, r \in 1..MaxRoomId, g \in {"ann", "bob"},
          n \in GuestCounts : create_booking_checks(q, r, g, 0, 1, n)
    \/ \E q \in Requests : create_booking_load(q)
    \/ \E q \in Requests : create_booking_price(q)
    \/ \E q \in Requests : create_booking_save(q)

SpecRace == Init /\ [][NextRace]_vars

\* the two cascading deletes running step by step, beside the handlers that
\* create parents and children; a run drives one of the two services
NextWrites ==
    \/ /\ movies = <<>> /\ reviews = <<>>
       /\ \/ \E p \in Prices, c \in Capacities : create_room("101", p, c)
          \/ \E r \in 1..MaxRoomId, g \in GuestNames, n \in GuestCounts :
                create_booking(r, g, 0, 1, n)
          \/ \E q \in Requests, r \in 1..MaxRoomId : delete_room_rooms(q, r)
          \/ \E q \in Requests : delete_room_bookings(q)
    \/ /\ rooms = <<>> /\ bookings = <<>>
       /\ \/ \E t \in Titles : create_movie(t)
          \/ \E m \in 1..MaxMovieId : create_review(m, 700)
          \/ \E q \in Requests, m \in 1..MaxMovieId : delete_movie_movies(q, m)
          \/ \E q \in Requests : delete_movie_reviews(q)

SpecWrites == Init /\ [][NextWrites]_vars

\* calls of check_room_availability, alone and from inside update_booking,
\* between the requests that build the bookings of one room
NextChecks ==
    \/ \E p \in Prices, c \in Capacities : create_room("101", p, c)
    \/ \E g \in GuestNames, ci \in Dates, co \in Dates, n \in GuestCounts :
          create_booking(1, g, ci, co, n)
    \/ \E b \in 1..MaxBookingId, g \in GuestNames, ci \in Dates, co \in Dates,
          n \in GuestCounts : update_booking(b, 1, g, ci, co, n)
    \/ \E b \in 1..MaxBookingId : update_booking_status(b, CANCELLED)
    \/ \E ci \in Dates, co \in Dates, x \in {None, 1, 2} :
          check_room_availability_call(1, ci, co, x)

SpecChecks == Init /\ [][NextChecks]_vars

\* the task service: ids submitted from 1 to MaxTaskId or generated
NextTasks ==
    \/ \E id \in 1..MaxTaskId, t \in {"buy", "call"}, c \in BOOLEAN,
          a \in BOOLEAN : create_task(id, t, c, a)
    \/ \E k \in 1..MaxTaskId, id \in 1..MaxTaskId, t \in {"buy", "call"},
          c \in BOOLEAN : update_task(k, id, t, c)
    \/ \E k \in 1..MaxTaskId : delete_task(k)

SpecTasks == Init /\ [][NextTasks]_vars

\* update_booking between a room at 100 and a room at 150, on bookings made
\* on an earlier day and confirmed since; every stay holds the night from
\* day 1 to day 2, so a room has one booking at most
NextUpdate ==
    \/ \E c \in Capacities : create_room("101", 100, c)
    \/ \E c \in Capacities : create_room("102", 150, c)
    \/ \E r \in 1..MaxRoomId, n \in GuestCounts : create_booking(r, "ann", 1, 2, n)
    \/ \E b \in 1..MaxBookingId, r \in 1..MaxRoomId, ci \in {0, 1},
          n \in GuestCounts : update_booking(b, r, "bob", ci, 2, n)
    \/ \E b \in 1..MaxBookingId : update_booking_status(b, CONFIRMED)
    \/ AdvanceDay

SpecUpdate == Init /\ [][NextUpdate]_vars

\* the creating and deleting handlers of the three services; the services
\* are separate processes over separate files, so a run drives one of them
NextIds ==
    \/ /\ movies = <<>> /\ reviews = <<>> /\ tasks = <<>>
       /\ \/ \E n \in RoomNumbers, p \in Prices, c \in Capacities :
                create_room(n, p, c)
          \/ \E r \in 1..MaxRoomId : delete_room(r)
          \/ \E r \in 1..MaxRoomId, g \in GuestNames, n \in GuestCounts :
                create_booking(r, g, 0, 1, n)
          \/ \E b \in 1..MaxBookingId : delete_booking(b)
    \/ /\ rooms = <<>> /\ bookings = <<>> /\ tasks = <<>>
       /\ \/ \E t \in Titles : create_movie(t)
          \/ \E m \in 1..MaxMovieId : delete_movie(m)
          \/ \E m \in 1..MaxMovieId : create_review(m, 700)
          \/ \E r \in 1..MaxReviewId : delete_review(r)
    \/ /\ rooms = <<>> /\ bookings = <<>> /\ movies = <<>> /\ reviews = <<>>
       /\ \/ \E id \in 1..MaxTaskId, a \in BOOLEAN : create_task(id, "buy", FALSE, a)
          \/ \E k \in 1..MaxTaskId, id \in 1..MaxTaskId :
                update_task(k, id, "buy", TRUE)
          \/ \E k \in 1..MaxTaskId : delete_task(k)

SpecIds == Init /\ [][NextIds]_vars

-----------------------------------------------------------------------------
(* Properties: helpers *)

Indices(coll) == 1..Len(coll)

Successful(op) ==
    response.op = op /\ response.status_code \in {200, 201}

\* the stored stay of a booking, as day ordinals
StayIn(b) == fromisoformat(b.check_in_date)
StayOut(b) == fromisoformat(b.check_out_date)

\* two half-open intervals [a, b) and [c, d) share a day
SharesDay(a, b, c, d) == a < d /\ c < b

RECURSIVE TotalRating(_, _)
TotalRating(revs, idx) ==
    IF idx = {} THEN 0
    ELSE LET i == CHOOSE j \in idx : TRUE
         IN revs[i].rating + TotalRating(revs, idx \ {i})

ReviewsOf(revs, movie_id) == {i \in Indices(revs) : revs[i].movie_id = movie_id}

\* v is a hundredth nearest to total / n
NearestHundredth(v, total, n) ==
    2 * (n * v - total) <= n /\ 2 * (total - n * v) <= n

\* <<rating, count>> is the aggregate of the reviews of movie_id in revs
IsAggregate(stats, revs, movie_id) ==
    LET idx == ReviewsOf(revs, movie_id)
    IN /\ stats[2] = Cardinality(idx)
       /\ IF idx = {} THEN stats[1] = None
          ELSE /\ stats[1] # None
               /\ NearestHundredth(stats[1], TotalRating(revs, idx), Cardinality(idx))

-----------------------------------------------------------------------------
(* C1: no two distinct stored bookings of the same room, both not cancelled, *)
(* have overlapping half-open stays.  The code lets update_booking_status    *)
(* bring a cancelled booking back without an availability check, so this is  *)
(* violated.                                                                 *)
C1_NoOverlappingActiveBookings ==
    \A i, j \in Indices(bookings) :
        (/\ i # j
         /\ bookings[i].room_id = bookings[j].room_id
         /\ bookings[i].status # CANCELLED
         /\ bookings[j].status # CANCELLED)
        => ~SharesDay(StayIn(bookings[i]), StayOut(bookings[i]),
                      StayIn(bookings[j]), StayOut(bookings[j]))

(* C2: check_room_availability is false exactly when a stored booking of the *)
(* room, other than the excluded one and not cancelled, shares a day with    *)
(* the requested half-open stay; stays that only touch do not collide.       *)
C2_AvailabilityIsOverlapFree ==
    \A r \in 1..(MaxRoomId + 1), ci \in Dates, co \in Dates,
       x \in {None} \cup (0..MaxBookingId) :
        ci < co =>
            (check_room_availability(bookings, r, ci, co, x)
             <=> ~\E i \in Indices(bookings) :
                    /\ bookings[i].room_id = r
                    /\ bookings[i].id # x
                    /\ bookings[i].status # CANCELLED
                    /\ SharesDay(ci, co, StayIn(bookings[i]), StayOut(bookings[i])))

\* a pending stay [1, 2) of room 1: both touching stays are free, the
\* enclosing stay is taken unless that booking is excluded
C2_Witness ==
    \E i \in Indices(bookings) :
        /\ bookings[i].room_id = 1 /\ bookings[i].status = PENDING
        /\ StayIn(bookings[i]) = 1 /\ StayOut(bookings[i]) = 2
        /\ Len(bookings) = 1
        /\ check_room_availability(bookings, 1, 0, 1, None)
        /\ ~check_room_availability(bookings, 1, 0, 2, None)
        /\ check_room_availability(bookings, 1, 0, 2, bookings[i].id)

(* C3: after every completed movie-service operation each stored movie has   *)
(* review_count equal to the number of stored reviews of that movie and      *)
(* rating equal to their mean rounded to hundredths, or null without any.    *)
C3_StoredStatsAreAggregates ==
    \A i \in Indices(movies) :
        IsAggregate(<<movies[i].rating, movies[i].review_count>>, reviews, movies[i].id)

\* a movie with three reviews whose mean is not a whole hundredth
C3_Witness ==
    \E i \in Indices(movies) :
        /\ movies[i].review_count = 3
        /\ movies[i].rating = 767

(* C4: calculate_movie_stats yields (null, 0) without a matching review and  *)
(* otherwise the mean of the matching ratings rounded to hundredths with     *)
(* their number; other movies' reviews do not contribute; 9.0 and 7.0 give   *)
(* 8.0 and 2.                                                                *)
C4_StatsComputation ==
    \A m \in 0..(MaxMovieId + 1) :
        LET stats == calculate_movie_stats(reviews, m)
            own == SelectSeq(reviews, LAMBDA r : r.movie_id = m)
        IN /\ IsAggregate(stats, reviews, m)
           /\ stats = calculate_movie_stats(own, m)
           /\ (Len(own) = 2 /\ {own[1].rating, own[2].rating} = {900, 700})
                  => stats = <<800, 2>>

\* reviews 9.0 and 7.0 of movie 1 beside a review of movie 2
C4_Witness ==
    /\ Len(reviews) = 3
    /\ \E i, j, k \in Indices(reviews) :
          /\ reviews[i].movie_id = 1 /\ reviews[i].rating = 900
          /\ reviews[j].movie_id = 1 /\ reviews[j].rating = 700
          /\ reviews[k].movie_id = 2
    /\ calculate_movie_stats(reviews, 1) = <<800, 2>>

(* C5: a successful create_review, update_review or delete_review first      *)
(* writes the review collection and then, before it returns, recomputes the  *)
(* statistics of the review's movie; an update_review that moves the review  *)
(* from M1 to another movie M2 recomputes both.                              *)
StatsCallAfterWrite(log, movie_id) ==
    /\ Len(log) >= 2
    /\ log[1] = Save("reviews")
    /\ \E k \in 2..Len(log) : log[k] = Call("update_movie_stats", "", movie_id)

C5_StatsRecomputedAfterReviewWrite ==
    [][/\ (response'.op = "create_review" /\ response'.status_code = 201)
          => StatsCallAfterWrite(calls',
                 reviews'[find_by_id(reviews', response'.id)].movie_id)
       /\ (response'.op = "update_review" /\ response'.status_code = 200)
          => /\ StatsCallAfterWrite(calls',
                    reviews[find_by_id(reviews, response'.id)].movie_id)
             /\ StatsCallAfterWrite(calls',
                    reviews'[find_by_id(reviews', response'.id)].movie_id)
       /\ (response'.op = "delete_review" /\ response'.status_code = 200)
          => StatsCallAfterWrite(calls',
                 reviews[find_by_id(reviews, response'.id)].movie_id)
      ]_vars

\* an update_review that moved its review to another movie
C5_Witness ==
    /\ Successful("update_review")
    /\ \E k, l \in Indices(calls) :
          /\ k < l
          /\ calls[k].fn = "update_movie_stats"
          /\ calls[l].fn = "update_movie_stats"
          /\ calls[k].movie_id # calls[l].movie_id
          /\ reviews[find_by_id(reviews, response.id)].movie_id = calls[l].movie_id

\* a step in which a handler wrote the review collection and then called
\* update_movie_stats on the movie collection as it stood
ReviewWritten(resp) ==
    /\ resp.op \in {"create_review", "update_review", "delete_review"}
    /\ resp.status_code \in {200, 201}

(* C6: update_movie_stats(m) changes nothing but rating and review_count of  *)
(* the movie with id m, and writes nothing when no movie has id m.  It is    *)
(* applied to the movie collection as the review handlers find it, with the  *)
(* review collection as they have just written it, for every movie id.       *)
OnlyStatsOf(before, after, movie_id) ==
    /\ Len(after) = Len(before)
    /\ \A i \in Indices(before) :
          IF before[i].id = movie_id
          THEN [after[i] EXCEPT !.rating = before[i].rating,
                                !.review_count = before[i].review_count] = before[i]
          ELSE after[i] = before[i]
    /\ find_by_id(before, movie_id) = 0
          => /\ after = before
             /\ \A k \in Indices(update_movie_stats_calls(before, movie_id)) :
                   update_movie_stats_calls(before, movie_id)[k].fn # "save_data_to_json"

C6_StatsUpdateFrame ==
    [][ReviewWritten(response') =>
          \A m \in 0..(MaxMovieId + 1) :
              OnlyStatsOf(movies, update_movie_stats(movies, reviews', m), m)]_vars

\* a create_review whose recomputation changed one of two stored movies
C6_Witness ==
    /\ Successful("create_review")
    /\ Len(movies) = 2
    /\ movies[1].review_count = 1
    /\ movies[2].review_count = 2

(* C7: running update_movie_stats twice with no review change in between     *)
(* leaves the movie collection as running it once does.                      *)
C7_StatsUpdateIdempotent ==
    [][ReviewWritten(response') =>
          \A m \in 0..(MaxMovieId + 1) :
              LET once == update_movie_stats(movies, reviews', m)
              IN update_movie_stats(once, reviews', m) = once]_vars

\* a delete_review whose recomputation changed the stored statistics
C7_Witness ==
    /\ Successful("delete_review")
    /\ \E i \in Indices(movies) : movies[i].review_count = 2
    /\ \E k \in Indices(calls) : calls[k] = Save("movies")

(* C8: a successful delete_room(r) removes room r, keeps every booking,      *)
(* leaves every booking of r cancelled, changes no other field and no other  *)
(* booking, and reports the number of bookings of r that were not cancelled. *)
C8_DeleteRoomCascade ==
    [][(response'.op = "delete_room" /\ response'.status_code = 200) =>
          LET r == response'.id
          IN /\ \A i \in Indices(rooms') : rooms'[i].id # r
             /\ Len(bookings') = Len(bookings)
             /\ \A i \in Indices(bookings) :
                   /\ bookings'[i].room_id = r => bookings'[i].status = CANCELLED
                   /\ [bookings'[i] EXCEPT !.status = bookings[i].status] = bookings[i]
                   /\ (bookings[i].status = CANCELLED \/ bookings[i].room_id # r)
                         => bookings'[i] = bookings[i]
             /\ response'.count =
                   Cardinality({i \in Indices(bookings) :
                       bookings[i].room_id = r /\ bookings[i].status # CANCELLED})
      ]_vars

\* room 1 deleted: its one live booking cancelled, room 2's booking untouched
C8_Witness ==
    /\ Successful("delete_room")
    /\ response.id = 1
    /\ response.count = 1
    /\ \E i, j \in Indices(bookings) :
          /\ bookings[i].room_id = 1 /\ bookings[i].status = CANCELLED
          /\ bookings[j].room_id = 2 /\ bookings[j].status = CONFIRMED

(* C9: a successful delete_movie(m) removes movie m and every review of m,   *)
(* keeps every review of another movie unchanged, and reports the number of  *)
(* reviews m had.                                                            *)
C9_DeleteMovieCascade ==
    [][(response'.op = "delete_movie" /\ response'.status_code = 200) =>
          LET m == response'.id
          IN /\ \A i \in Indices(movies') : movies'[i].id # m
             /\ \A i \in Indices(reviews') : reviews'[i].movie_id # m
             /\ \A i \in Indices(reviews) :
                   reviews[i].movie_id # m
                      => \E k \in Indices(reviews') : reviews'[k] = reviews[i]
             /\ Len(reviews') = Cardinality(Indices(reviews) \ ReviewsOf(reviews, m))
             /\ response'.count = Cardinality(ReviewsOf(reviews, m))
      ]_vars

\* a movie deleted with its two reviews, another movie's review kept
C9_Witness ==
    /\ Successful("delete_movie")
    /\ response.count = 2
    /\ Len(reviews) = 1
    /\ Len(movies) = 1

(* C10: a successful update_booking_status(b, s) sets the status of booking  *)
(* b to s and changes nothing else: no other field of b, no other booking,   *)
(* no room.                                                                  *)
C10_StatusUpdateFrame ==
    [][(response'.op = "update_booking_status" /\ response'.status_code = 200) =>
          \A s \in BookingStatusEnum :
              update_booking_status(response'.id, s) =>
                  /\ rooms' = rooms
                  /\ bookings' = [bookings EXCEPT
                         ![find_by_id(bookings, response'.id)].status = s]
      ]_vars

\* the second of two bookings confirmed, the first still pending
C10_Witness ==
    /\ Successful("update_booking_status")
    /\ response.id = 2
    /\ Len(bookings) = 2
    /\ bookings[1].status = PENDING
    /\ bookings[2].status = CONFIRMED
    /\ bookings[2].total_price > 0

(* C11: an operation that names a room or movie that is not stored          *)
(* (create_booking, update_booking, create_review, update_review,           *)
(* delete_room, delete_movie) is rejected, and both collections of its      *)
(* service are as they were before the call.                                *)
RejectedUnchanged ==
    /\ response'.status_code >= 400
    /\ rooms' = rooms /\ bookings' = bookings
    /\ movies' = movies /\ reviews' = reviews

C11_MissingParentRejected ==
    [][/\ response'.op \in {"create_booking", "update_booking", "delete_room"} =>
            \A r \in 1..MaxRoomId :
                (/\ \A i \in Indices(rooms) : rooms[i].id # r
                 /\ \/ delete_room(r)
                    \/ \E g \in GuestNames, ci \in Dates, co \in Dates,
                          n \in GuestCounts :
                          \/ create_booking(r, g, ci, co, n)
                          \/ \E b \in 1..MaxBookingId :
                                update_booking(b, r, g, ci, co, n))
                => RejectedUnchanged
       /\ response'.op \in {"create_review", "update_review", "delete_movie"} =>
            \A m \in 1..MaxMovieId :
                (/\ \A i \in Indices(movies) : movies[i].id # m
                 /\ \/ delete_movie(m)
                    \/ \E x \in Ratings :
                          \/ create_review(m, x)
                          \/ \E r \in 1..MaxReviewId : update_review(r, m, x))
                => RejectedUnchanged
      ]_vars

\* update_booking of a stored booking moved to a room that is not stored
C11_Witness ==
    /\ response.op = "update_booking"
    /\ response.status_code = 404
    /\ Len(bookings) = 1 /\ Len(rooms) = 1
    /\ bookings[1].status = PENDING

(* C12: calculate_total_price is 0 when no stored room has the id and       *)
(* otherwise the room's price_per_night times the whole days from check_in  *)
(* to check_out; 100 a night over 3 nights is 300.                          *)
C12_TotalPrice ==
    \A r \in 0..(MaxRoomId + 1), ci \in 0..3, co \in 0..3 :
        LET price == calculate_total_price(rooms, r, ci, co)
            stored == {i \in Indices(rooms) : rooms[i].id = r}
        IN /\ stored = {} => price = 0
           /\ \A i \in stored : price = rooms[i].price_per_night * (co - ci)
           /\ (ci + 3 = co /\ \E i \in stored : rooms[i].price_per_night = 100)
                 => price = 300

\* room 2 stored at 100 a night and no room 1
C12_Witness ==
    /\ Len(rooms) = 1
    /\ rooms[1].id = 2 /\ rooms[1].price_per_night = 100
    /\ calculate_total_price(rooms, 2, 0, 3) = 300
    /\ calculate_total_price(rooms, 1, 0, 3) = 0

(* C13: every stored booking whose room is stored has total_price equal to  *)
(* its nights times the current price_per_night of that room.  update_room  *)
(* changes the price of a room and leaves its bookings as they are, so this *)
(* is violated.                                                             *)
C13_PriceIsCurrent ==
    \A i \in Indices(bookings), k \in Indices(rooms) :
        rooms[k].id = bookings[i].room_id
            => bookings[i].total_price =
                   (StayOut(bookings[i]) - StayIn(bookings[i]))
                       * rooms[k].price_per_night

(* C14: every stored booking whose room is stored has num_guests at most    *)
(* the current capacity of that room.  update_room lowers the capacity of   *)
(* a room without looking at its bookings, so this is violated.             *)
C14_GuestsWithinCapacity ==
    \A i \in Indices(bookings), k \in Indices(rooms) :
        rooms[k].id = bookings[i].room_id
            => bookings[i].num_guests <= rooms[k].capacity

(* C15: the status of a booking moves only forward along pending,           *)
(* confirmed, checked_in, checked_out, or to cancelled: never from          *)
(* cancelled to another status and never backwards.  update_booking_status  *)
(* assigns whatever status it is given, so this is violated.                *)
StatusRank(status) ==
    CASE status = PENDING -> 1
      [] status = CONFIRMED -> 2
      [] status = CHECKED_IN -> 3
      [] status = CHECKED_OUT -> 4
      [] status = CANCELLED -> 5

C15_StatusLifecycle ==
    [][\A i \in Indices(bookings), j \in Indices(bookings') :
          bookings'[j].id = bookings[i].id
              => StatusRank(bookings[i].status) <= StatusRank(bookings'[j].status)
      ]_vars

(* C16: no two stored rooms have the same room_number, and a create_room or *)
(* update_room that would give a room the room_number of another stored     *)
(* room is rejected with the room collection unchanged.                     *)
UniqueRoomNumbers(rms) ==
    \A i, j \in Indices(rms) : rms[i].room_number = rms[j].room_number => i = j

C16_RoomNumbersUnique ==
    [][/\ UniqueRoomNumbers(rooms')
       /\ response'.op \in {"create_room", "update_room"} =>
            \A n \in RoomNumbers, p \in {100, 150}, c \in {1, 2} :
                /\ (/\ create_room(n, p, c)
                    /\ \E i \in Indices(rooms) : rooms[i].room_number = n)
                   => (response'.status_code = 400 /\ rooms' = rooms)
                /\ \A r \in 1..MaxRoomId :
                      (/\ update_room(r, n, p, c)
                       /\ \E i \in Indices(rooms) :
                             rooms[i].room_number = n /\ rooms[i].id # r)
                      => (response'.status_code = 400 /\ rooms' = rooms)
      ]_vars

\* two rooms stored, and an update_room for the number of the other refused
C16_Witness ==
    /\ response.op = "update_room"
    /\ response.status_code = 400
    /\ Len(rooms) = 2
    /\ rooms[1].room_number # rooms[2].room_number

(* C17: when two writers of one collection both load it before either       *)
(* saves, the collection stored after the later save is the later writer's  *)
(* loaded list with its own change: the earlier writer's change is not in   *)
(* it, and both writers have answered with success.  A request is in        *)
(* raced of another when it saved after the other loaded.                   *)
C17_LastWriteWins ==
    [][\A q \in Requests :
          (/\ inflight[q].pc = "save" /\ inflight'[q].pc = "done"
           /\ inflight[q].raced # {})
          => LET later == inflight[q]
                 n == Len(later.loaded)
             IN /\ Len(bookings') = n + 1
                /\ SubSeq(bookings', 1, n) = later.loaded
                /\ bookings'[n + 1].guest_name = later.guest_name
                /\ bookings'[n + 1].id = inflight'[q].resp.id
                /\ inflight'[q].resp.status_code = 201
                /\ \A a \in later.raced :
                      /\ inflight[a].resp.status_code = 201
                      /\ inflight[a].loaded = later.loaded
                            => /\ inflight[a].resp.id = inflight'[q].resp.id
                               /\ \A i \in Indices(bookings') :
                                     bookings'[i].id = inflight[a].resp.id
                                         => i = n + 1
      ]_vars

\* ann's and bob's requests both answered 201 with booking 1; the one stored
\* booking is bob's, whose save came second
C17_Witness ==
    /\ inflight[1].pc = "done" /\ inflight[2].pc = "done"
    /\ inflight[1].resp.status_code = 201 /\ inflight[1].resp.id = 1
    /\ inflight[2].resp.status_code = 201 /\ inflight[2].resp.id = 1
    /\ inflight[1].guest_name = "ann" /\ inflight[2].guest_name = "bob"
    /\ inflight[2].raced = {1}
    /\ Len(bookings) = 1
    /\ bookings[1].guest_name = "bob"

(* C19: in no stored state, those between the two file writes of            *)
(* delete_room and of delete_movie included, is a booking that is not       *)
(* cancelled stored for a room that is not, or a review stored for a movie  *)
(* that is not.  Both handlers save the parents' file before the            *)
(* children's, so this is violated between the two saves.                   *)
C19_CascadeAllOrNothing ==
    /\ \A i \in Indices(bookings) :
          bookings[i].status # CANCELLED
              => \E k \in Indices(rooms) : rooms[k].id = bookings[i].room_id
    /\ \A i \in Indices(reviews) :
          \E k \in Indices(movies) : movies[k].id = reviews[i].movie_id

(* C18: an operation whose room, booking, movie or review id is not stored  *)
(* ends with the not-found outcome (404), not with a rejection for          *)
(* availability, capacity or a duplicate room number (400) and not with     *)
(* success.  Requests the validators refuse never reach the operation and   *)
(* are left out.  update_room tests the room number before it looks for     *)
(* the room, so for a room id that is not stored and a number that is       *)
(* taken it answers 400: this is violated.                                  *)
Stored(coll, id) == \E i \in Indices(coll) : coll[i].id = id

C18_MissingIdIsNotFound ==
    [][/\ response'.op \in {"update_room", "delete_room"} =>
            \A r \in 1..MaxRoomId :
                (/\ ~Stored(rooms, r)
                 /\ \/ delete_room(r)
                    \/ \E n \in RoomNumbers, p \in {100, 150}, c \in {1, 2} :
                          update_room(r, n, p, c))
                => response'.status_code = 404
       /\ response'.op \in {"create_booking", "update_booking", "delete_booking",
                            "update_booking_status"} =>
            \A r \in 1..MaxRoomId, b \in 1..MaxBookingId :
                /\ (/\ ~Stored(bookings, b)
                    /\ \/ delete_booking(b)
                       \/ \E x \in BookingStatusEnum : update_booking_status(b, x))
                   => response'.status_code = 404
                /\ \A g \in GuestNames, ci \in Dates, co \in Dates, n \in GuestCounts :
                      /\ (/\ ~Stored(rooms, r)
                          /\ valid_booking_create(r, ci, co, n)
                          /\ create_booking(r, g, ci, co, n))
                         => response'.status_code = 404
                      /\ (/\ ~Stored(rooms, r) \/ ~Stored(bookings, b)
                          /\ valid_booking_create(r, ci, co, n)
                          /\ update_booking(b, r, g, ci, co, n))
                         => response'.status_code = 404
       /\ response'.op \in {"update_movie", "delete_movie", "create_review",
                            "update_review", "delete_review"} =>
            \A m \in 1..MaxMovieId, r \in 1..MaxReviewId :
                /\ (/\ ~Stored(movies, m)
                    /\ \/ delete_movie(m)
                       \/ \E t \in Titles : update_movie(m, t)
                       \/ \E x \in Ratings : create_review(m, x))
                   => response'.status_code = 404
                /\ (~Stored(reviews, r) /\ delete_review(r))
                   => response'.status_code = 404
                /\ \A x \in Ratings :
                      (/\ ~Stored(movies, m) \/ ~Stored(reviews, r)
                       /\ update_review(r, m, x))
                      => response'.status_code = 404
      ]_vars

(* C20: check_room_availability changes neither the room nor the booking    *)
(* collection, so a second call with the same input returns what the first  *)
(* returned; this holds for the call update_booking makes as well.          *)
C20_AvailabilityCheckHasNoEffect ==
    [][/\ response'.op = "check_room_availability" =>
            /\ rooms' = rooms /\ bookings' = bookings
            /\ \A ci \in Dates, co \in Dates, x \in {None, 1, 2} :
                  check_room_availability_call(1, ci, co, x) =>
                      (check_room_availability(bookings', 1, ci, co, x)
                       <=> response'.detail = "True")
       /\ (response'.op = "update_booking"
              /\ response'.detail = "room_not_available") =>
            /\ rooms' = rooms /\ bookings' = bookings
            /\ \A b \in 1..MaxBookingId, ci \in Dates, co \in Dates :
                  (\E g \in GuestNames, n \in GuestCounts :
                       update_booking(b, 1, g, ci, co, n))
                  => ~check_room_availability(bookings', 1, ci, co, b)
      ]_vars

\* a call that found room 1 taken by the other of two stored bookings while
\* one of them was excluded
C20_Witness ==
    /\ response.op = "check_room_availability"
    /\ response.detail = "False"
    /\ Len(bookings) = 2
    /\ bookings[1].status = PENDING /\ bookings[2].status = PENDING
    /\ ~check_room_availability(bookings, 1, 0, 2, 1)
    /\ ~check_room_availability(bookings, 1, 0, 2, 2)

(* C21: no two stored tasks have the same id; create_task without auto_id   *)
(* for an id that is stored, and update_task that would give a task the id  *)
(* of another stored task, are rejected with the task collection unchanged. *)
UniqueIds(coll) ==
    \A i, j \in Indices(coll) : coll[i].id = coll[j].id => i = j

C21_TaskIdsUnique ==
    [][/\ UniqueIds(tasks')
       /\ response'.op = "create_task" =>
            \A id \in 1..MaxTaskId, t \in {"buy", "call"}, c \in BOOLEAN :
                (Stored(tasks, id) /\ create_task(id, t, c, FALSE))
                => (response'.status_code = 400 /\ tasks' = tasks)
       /\ response'.op = "update_task" =>
            \A k \in 1..MaxTaskId, id \in 1..MaxTaskId, t \in {"buy", "call"},
               c \in BOOLEAN :
                (/\ k # id /\ Stored(tasks, k) /\ Stored(tasks, id)
                 /\ update_task(k, id, t, c))
                => (response'.status_code = 400 /\ tasks' = tasks)
      ]_vars

\* two tasks stored, and an update_task of one to the id of the other refused
C21_Witness ==
    /\ response.op = "update_task"
    /\ response.status_code = 400
    /\ Len(tasks) = 2
    /\ tasks[1].id # tasks[2].id

(* C22: after a successful create_task for an id that was not stored,       *)
(* read_task of that id returns the created task; delete_task of it then    *)
(* succeeds, read_task of it is not-found, and the collection is the one    *)
(* from before the create.                                                  *)
C22_CreateDeleteRoundTrip ==
    [][(response'.op = "create_task" /\ response'.status_code = 201) =>
          \A id \in 1..MaxTaskId, t \in {"buy", "call"}, c \in BOOLEAN,
             a \in BOOLEAN :
              create_task(id, t, c, a) =>
                  LET new == response'.id
                      deleted == without_task(tasks', new)
                  IN /\ ~Stored(tasks, new)
                     /\ read_task(tasks', new) =
                            [status_code |-> 200,
                             task |-> <<[id |-> new, title |-> t,
                                         completed |-> c]>>]
                     /\ find_by_id(tasks', new) # 0
                     /\ read_task(deleted, new).status_code = 404
                     /\ deleted = tasks
      ]_vars

\* task 2 created beside task 1
C22_Witness ==
    /\ response.op = "create_task" /\ response.status_code = 201
    /\ response.id = 2
    /\ Len(tasks) = 2
    /\ tasks[1].id = 1 /\ tasks[2].id = 2
    /\ without_task(tasks, 2) = <<tasks[1]>>

(* C23: a successful update_booking(b, data) keeps id, status and           *)
(* created_at of booking b, stores the submitted room, guest, dates and     *)
(* number of guests, sets total_price to the nights times the               *)
(* price_per_night of the submitted room, and changes no other booking.     *)
C23_UpdateBookingFrame ==
    [][(response'.op = "update_booking" /\ response'.status_code = 200) =>
          \A r \in 1..MaxRoomId, g \in {"bob"}, ci \in {0, 1}, co \in {2},
             n \in GuestCounts :
              update_booking(response'.id, r, g, ci, co, n) =>
                  LET i == find_by_id(bookings, response'.id)
                      old == bookings[i]
                      new == bookings'[i]
                  IN /\ Len(bookings') = Len(bookings)
                     /\ \A j \in Indices(bookings) :
                           j # i => bookings'[j] = bookings[j]
                     /\ new.id = old.id
                     /\ new.status = old.status
                     /\ new.created_at = old.created_at
                     /\ new.room_id = r /\ new.guest_name = g
                     /\ new.num_guests = n
                     /\ StayIn(new) = ci /\ StayOut(new) = co
                     /\ \E k \in Indices(rooms) :
                           /\ rooms[k].id = r
                           /\ new.total_price =
                                  (co - ci) * rooms[k].price_per_night
                     /\ rooms' = rooms
      ]_vars

\* booking 1, made on the first day and confirmed, moved on the second day
\* to a room of another price and to another guest; booking 2 untouched
C23_Witness ==
    /\ response.op = "update_booking" /\ response.status_code = 200
    /\ response.id = 1
    /\ today = 1
    /\ Len(bookings) = 2
    /\ bookings[1].created_at = 0
    /\ bookings[1].status = CONFIRMED
    /\ bookings[1].guest_name = "bob"
    /\ bookings[1].total_price = 150
    /\ bookings[2].guest_name = "ann"
    /\ bookings[2].total_price = 100

(* C24: update_booking does not refuse a booking for overlapping itself: an *)
(* update of stored booking b whose new stay shares a day with no other     *)
(* non-cancelled booking of the target room is not answered 'room not       *)
(* available', b's own room and dates resubmitted included; one whose new   *)
(* stay shares a day with another non-cancelled booking of that room is     *)
(* refused with the booking collection unchanged.                           *)
OtherOverlap(b, r, ci, co) ==
    \E j \in Indices(bookings) :
        /\ bookings[j].id # b
        /\ bookings[j].room_id = r
        /\ bookings[j].status # CANCELLED
        /\ SharesDay(ci, co, StayIn(bookings[j]), StayOut(bookings[j]))

C24_NoSelfOverlap ==
    [][response'.op = "update_booking" =>
          \A b \in 1..MaxBookingId, ci \in Dates, co \in Dates :
              (/\ Stored(bookings, b) /\ Stored(rooms, 1)
               /\ \E g \in GuestNames, n \in GuestCounts :
                     /\ valid_booking_create(1, ci, co, n)
                     /\ update_booking(b, 1, g, ci, co, n))
              => IF OtherOverlap(b, 1, ci, co)
                 THEN /\ response'.status_code = 400
                      /\ response'.detail = "room_not_available"
                      /\ bookings' = bookings
                 ELSE response'.detail # "room_not_available"
      ]_vars

\* booking 1 updated beside booking 2 of the same room; its stored stay is
\* taken by no booking but itself
C24_Witness ==
    /\ response.op = "update_booking" /\ response.status_code = 200
    /\ response.id = 1
    /\ Len(bookings) = 2
    /\ bookings[1].status = PENDING /\ bookings[2].status = PENDING
    /\ bookings[1].room_id = bookings[2].room_id
    /\ ~check_room_availability(bookings, 1, StayIn(bookings[1]),
                                StayOut(bookings[1]), None)
    /\ check_room_availability(bookings, 1, StayIn(bookings[1]),
                               StayOut(bookings[1]), 1)

(* C25: create_room, create_booking, create_movie, create_review and        *)
(* create_task with auto_id store the new record under the largest stored   *)
(* id plus one, 1 for an empty collection, and no two records of one        *)
(* collection share an id, the handlers not interleaving.                   *)
IsNextId(id, coll) ==
    /\ \A i \in Indices(coll) : coll[i].id < id
    /\ IF coll = <<>> THEN id = 1
       ELSE \E i \in Indices(coll) : coll[i].id + 1 = id

Created(op, before, after) ==
    (response'.op = op /\ response'.status_code = 201) =>
        /\ after = Append(before, after[Len(after)])
        /\ after[Len(after)].id = response'.id
        /\ IsNextId(response'.id, before)

C25_GeneratedIdsUnique ==
    [][/\ UniqueIds(rooms') /\ UniqueIds(bookings')
       /\ UniqueIds(movies') /\ UniqueIds(reviews') /\ UniqueIds(tasks')
       /\ Created("create_room", rooms, rooms')
       /\ Created("create_booking", bookings, bookings')
       /\ Created("create_movie", movies, movies')
       /\ Created("create_review", reviews, reviews')
       /\ (response'.op = "create_task" /\ response'.status_code = 201) =>
             /\ tasks' = Append(tasks, tasks'[Len(tasks')])
             /\ tasks'[Len(tasks')].id = response'.id
             /\ (\E c \in BOOLEAN : create_task(response'.id, "buy", c, TRUE))
                   => IsNextId(response'.id, tasks)
      ]_vars

\* the third review created while two are stored, one having been deleted
C25_Witness ==
    /\ response.op = "create_review" /\ response.status_code = 201
    /\ response.id = 3
    /\ Len(reviews) = 2
    /\ reviews[2].id = 3

(* C26: a room created after a delete_room does not get the id of the       *)
(* deleted room, so a newly created room has no bookings.  create_room      *)
(* takes the largest stored id plus one, which is the id of the room just   *)
(* deleted when that room had the largest id: this is violated.             *)
C26_NewRoomHasNoBookings ==
    [][(response'.op = "create_room" /\ response'.status_code = 201) =>
          \A i \in Indices(bookings') : bookings'[i].room_id # response'.id
      ]_vars

(* C27: after every completed booking-service operation, every stored       *)
(* booking that is not cancelled has the room_id of a stored room.          *)
(* update_booking_status gives a booking of a deleted room any status, so   *)
(* this is violated.                                                        *)
C27_ActiveBookingsHaveRooms ==
    \A i \in Indices(bookings) :
        bookings[i].status = CANCELLED \/ Stored(rooms, bookings[i].room_id)

(* C28: after every completed movie-service operation every stored review   *)
(* has the movie_id of a stored movie: an accepted create_review or         *)
(* update_review names a movie that was stored when the request arrived,    *)
(* and an accepted delete_movie leaves no review of the deleted movie.      *)
C28_ReviewsHaveMovies ==
    [][/\ \A i \in Indices(reviews') : Stored(movies', reviews'[i].movie_id)
       /\ (response'.op = "create_review" /\ response'.status_code = 201) =>
              /\ Stored(movies, reviews'[Len(reviews')].movie_id)
              /\ reviews'[Len(reviews')].id = response'.id
       /\ (response'.op = "update_review" /\ response'.status_code = 200) =>
              \A i \in Indices(reviews') :
                  reviews'[i].id = response'.id =>
                      Stored(movies, reviews'[i].movie_id)
       /\ (response'.op = "delete_movie" /\ response'.status_code = 200) =>
              /\ ~Stored(movies', response'.id)
              /\ ReviewsOf(reviews', response'.id) = {}
      ]_vars

\* the first review of the movie created last is accepted while an older
\* movie is stored too
C28_Witness ==
    /\ response.op = "create_review" /\ response.status_code = 201
    /\ Len(movies) = 2 /\ Len(reviews) > 0
    /\ reviews[Len(reviews)].movie_id = movies[2].id
    /\ movies[2].review_count = 1

(* C29: when two create_booking requests for one room and overlapping       *)
(* stays have both been answered with success, at most one stored booking   *)
(* of that room that is not cancelled shares a day with the requested       *)
(* stay.  Both requests can pass the availability check before either       *)
(* saves, so this is violated.                                              *)
C29_InterleavedCreatesExclude ==
    \A p, q \in Requests :
        (/\ p # q
         /\ inflight[p].pc = "done" /\ inflight[p].resp.status_code = 201
         /\ inflight[q].pc = "done" /\ inflight[q].resp.status_code = 201
         /\ inflight[p].op = "create_booking" /\ inflight[q].op = "create_booking"
         /\ inflight[p].target = inflight[q].target
         /\ SharesDay(inflight[p].check_in, inflight[p].check_out,
                      inflight[q].check_in, inflight[q].check_out))
        => Cardinality({i \in Indices(bookings) :
               /\ bookings[i].room_id = inflight[p].target
               /\ bookings[i].status # CANCELLED
               /\ SharesDay(StayIn(bookings[i]), StayOut(bookings[i]),
                            inflight[p].check_in, inflight[p].check_out)}) <= 1

(* C30: cancelling or deleting a booking frees its dates.  When             *)
(* create_booking for room r, stay ci..co and a party the room holds is     *)
(* refused as 'room not available' and b is the only stored booking of r,   *)
(* not cancelled, that shares a day with the stay, then right after an      *)
(* accepted update_booking_status(b, cancelled) or delete_booking(b) the    *)
(* same create_booking is accepted.  Every create_booking step answers      *)
(* what create_booking_detail says for some submitted booking.              *)
OnlyBlocker(b, r, ci, co) ==
    /\ ~OtherOverlap(b, r, ci, co)
    /\ \E j \in Indices(bookings) :
          /\ bookings[j].id = b /\ bookings[j].room_id = r
          /\ bookings[j].status # CANCELLED
          /\ SharesDay(ci, co, StayIn(bookings[j]), StayOut(bookings[j]))

Freed(b) ==
    \/ response'.op = "delete_booking" /\ ~Stored(bookings', b)
    \/ /\ response'.op = "update_booking_status"
       /\ \E j \in Indices(bookings') :
             bookings'[j].id = b /\ bookings'[j].status = CANCELLED

C30_CancelFreesDates ==
    [][/\ (response'.status_code = 200 /\ Freed(response'.id)) =>
              \A r \in 1..MaxRoomId, ci \in Dates, co \in Dates, n \in GuestCounts :
                  (/\ create_booking_detail(rooms, bookings, r, ci, co, n)
                         = "room_not_available"
                   /\ OnlyBlocker(response'.id, r, ci, co)
                   /\ \A k \in Indices(rooms) :
                         rooms[k].id = r => n <= rooms[k].capacity)
                  => create_booking_detail(rooms', bookings', r, ci, co, n) = ""
       /\ response'.op = "create_booking" =>
              \E r \in 1..MaxRoomId, ci \in Dates, co \in Dates, n \in GuestCounts :
                  /\ create_booking_detail(rooms, bookings, r, ci, co, n)
                        = response'.detail
                  /\ response'.detail = "" <=>
                        /\ response'.status_code = 201
                        /\ bookings' # bookings
                        /\ bookings'[Len(bookings')].room_id = r
                        /\ StayIn(bookings'[Len(bookings')]) = ci
                        /\ StayOut(bookings'[Len(bookings')]) = co
      ]_vars

\* booking 1 of room 1 has just been cancelled, booking 2 of the same room
\* and stay is stored after it: the create_booking that followed was accepted
C30_Witness ==
    /\ response.op = "create_booking" /\ response.status_code = 201
    /\ Len(bookings) = 2
    /\ bookings[1].status = CANCELLED /\ bookings[2].status = PENDING
    /\ bookings[1].room_id = bookings[2].room_id
    /\ StayIn(bookings[1]) = StayIn(bookings[2])
    /\ StayOut(bookings[1]) = StayOut(bookings[2])

====
